---- MODULE Spec2Model ----
(***************************************************************************)
(* The particle field engine of components/AnimatedBackground.tsx.  The    *)
(* file holds two revisions of the component:                              *)
(*   "time"  (lines 14-197): velocities in pixels per second, integrated   *)
(*           with a measured, capped time step;                            *)
(*   "frame" (lines 208-390): velocities in pixels per frame, with a       *)
(*           30 fps throttle on constrained devices.                       *)
(* The revision is chosen in Init and never changes.                       *)
(*                                                                         *)
(* Numbers.  A coordinate or velocity (a JS number) is a fixed-point       *)
(* integer counting 1/Unit of a pixel.  Timestamps are milliseconds.  The  *)
(* time step dt of the "time" revision counts 1/TicksPerSecond of a        *)
(* second, so that 1/60 s (50 ticks) and n ms (3n ticks) are integers.     *)
(* The draws of Math.random() are chosen so that every product the code    *)
(* forms is exact in these units.                                          *)
(***************************************************************************)
EXTENDS Integers, Sequences, FiniteSets, TLC

VARIABLES
  rev,                  \* which revision of the component runs
  surface,              \* what the effect obtains: "ok", or "noCanvas" / "noContext" (null)
  phase,                \* "init" (effect not yet run), "mounted", "unmounted"
  now,                  \* performance.now(), ms
  innerWidth,           \* window.innerWidth, px
  innerHeight,          \* window.innerHeight, px
  devicePixelRatio,     \* window.devicePixelRatio, in halves (2 = 1.0)
  deviceMemory,         \* navigator.deviceMemory, 0 = not reported
  visibilityState,      \* document.visibilityState
  prefersReducedMotion, \* matchMedia('(prefers-reduced-motion: reduce)').matches at mount
  isMobileMode,         \* the effect's const isMobileMode
  canvas,               \* [width, height] of the backing store, px; dpr: the transform set
  nodes,                \* nodesRef.current
  generation,           \* number of runs of createNodes so far
  last,                 \* the effect's let last
  animationRef,         \* animationRef.current, 0 = undefined
  pending,              \* the frame callbacks requested and neither run nor cancelled
  nextHandle,           \* the handle the next requestAnimationFrame returns
  resizeListener,       \* window 'resize' listener registered
  visibilityListener,   \* document 'visibilitychange' listener registered
  calls,                \* canvas calls issued so far: [clear, stroke, fill]
  frame,                \* the latest invocation of animate
  frames,               \* number of invocations of animate so far
  pause,                \* the latest handled visibilitychange to hidden
  \* the mail relay function (a separate program)
  event,                \* the request the handler is invoked with: [httpMethod, body]
  env,                  \* which of the environment variables are set
  upstream,             \* what the provider call did: "none" while not made
  sent,                 \* the mail handed to the provider, "none" while none
  response,             \* what the handler returned, "none" before it returns
  fetches,              \* number of calls of fetch the handler made
  \* the pages of the site (separate components)
  gallery,              \* VanillaHologramAbout: its cards, listeners and frame callbacks
  talk,                 \* Talk: input, messages, loading and the request in flight
  gate,                 \* Works / Certification: isAdmin, the AdminGate's code, the preview
  escaped               \* escapeHtml: the input it was called with and what it returned

\* the variables of the mail relay
relay == <<event, env, upstream, sent, response, fetches>>

\* the variables of the pages
pages == <<gallery, talk, gate, escaped>>

vars == <<relay, pages, rev, surface, phase, now, innerWidth, innerHeight, devicePixelRatio, deviceMemory,
          visibilityState, prefersReducedMotion, isMobileMode, canvas, nodes, generation,
          last, animationRef, pending, nextHandle, resizeListener, visibilityListener,
          calls, frame, frames, pause>>

----------------------------------------------------------------------------
(* Bounds of the model *)

\* animate runs while requestAnimationFrame has been called fewer than MaxHandle
\* times; onVisibility may call it once more, so that a resume after the last
\* frame is still observed
MaxHandle == 3
\* createNodes runs at most MaxGen times in a run (the mount and MaxGen - 1 resizes)
MaxGen == 2
\* the cards of the hologram gallery are clicked at most MaxClicks times in a run
MaxClicks == 4
\* send of the chat widget is invoked at most MaxSends times in a run
MaxSends == 6
\* the admin code typed into the gate has at most MaxCodeLen characters
MaxCodeLen == 5
\* the strings escapeHtml is called with have at most MaxLen characters
MaxLen == 3

\* hundredths of a pixel
Unit == 100
\* dt counts 1/3000 s
TicksPerSecond == 3000

\* performance.now() when the effect runs, ms
StartTimes == {1000}
\* the time between the current time and a frame callback's timestamp, ms;
\* 0: a callback run in the same frame as an earlier one
Steps == {0, 16, 40}
\* the viewport sizes <<innerWidth, innerHeight>> a resize leads to
Viewports == {<<800, 30>>, <<400, 800>>}
\* the devices the component is mounted on: <<innerWidth, innerHeight,
\* devicePixelRatio in halves, deviceMemory or 0, prefers-reduced-motion>>
Devices == {<<800, 30, 2, 0, FALSE>>, <<400, 800, 4, 0, FALSE>>, <<1920, 1080, 2, 2, FALSE>>,
            <<1920, 1080, 2, 0, FALSE>>, <<800, 30, 4, 0, TRUE>>, <<400, 800, 4, 0, TRUE>>}
\* devices with small canvases: viewports on either side of the small-screen width,
\* reported memories on either side of the low-power threshold, a 550 x 340
\* viewport, whose area is a multiple of both density divisors, and a standard
\* device with a devicePixelRatio of 2
SmallDevices == {<<767, 30, 2, 0, FALSE>>, <<768, 30, 2, 0, FALSE>>, <<550, 340, 2, 0, FALSE>>,
                 <<768, 30, 2, 3, TRUE>>, <<768, 30, 2, 4, TRUE>>, <<767, 30, 2, 8, TRUE>>,
                 <<768, 30, 4, 0, FALSE>>}
\* one constrained and one standard device, for the runs under a fair scheduler
FairDevices == {<<767, 30, 2, 0, FALSE>>, <<768, 30, 2, 0, FALSE>>}
\* states of the Math.random() stream
Seeds == {30, 254}
\* the one used in the runs under a fair scheduler
FairSeeds == {30}
\* the times between callbacks in the runs under a fair scheduler, ms
FairSteps == {16, 40}
\* the viewport a resize leads to in the runs under a fair scheduler
FairViewports == {<<800, 30>>}

----------------------------------------------------------------------------
(* Program constants *)

SmallScreenMaxWidth == 767
DefaultDeviceMemory == 4
LowPowerMemory == 3
ConnectionCeiling == 120
DensityDivisorTime == 8500
DensityDivisorFrame == 11000
BaseCapTime == 240
BaseCapFrame == 220
MobileMaxTime == 32
StandardMaxTime == 180
MobileMaxFrame == 26
StandardMaxFrame == 160
MaxDistanceTime == 220
MaxDistanceFrame == 200
ThrottleMs == 33

Min(a, b) == IF a < b THEN a ELSE b
Max(a, b) == IF a > b THEN a ELSE b

----------------------------------------------------------------------------
(* Acquiring the drawing surface *)

\* what canvasRef.current and canvas.getContext('2d') may give
Surfaces == {"ok", "noCanvas", "noContext"}

\* the guards without effect: the effect goes on whatever it obtained
SurfaceAssumed(s) == TRUE

\* if (!canvas) return; ... if (!ctx) return;  passed
SurfaceAcquired(s) == s # "noCanvas" /\ s # "noContext"

----------------------------------------------------------------------------
(* Device tier *)

\* matchMedia('(max-width: 767px)').matches
isSmallScreen(w) == w <= SmallScreenMaxWidth

\* isLowPower without the default || 4: an absent value counts as low memory
isLowPowerNoDefault(mem) == mem <= LowPowerMemory

\* (navigator as any).deviceMemory || 4;  deviceMem <= 3
isLowPower(mem) ==
  LET deviceMem == IF mem = 0 THEN DefaultDeviceMemory ELSE mem
  IN  deviceMem <= LowPowerMemory

MobileMode(w, mem) == isSmallScreen(w) \/ isLowPower(mem)

----------------------------------------------------------------------------
(* resizeCanvas *)

\* the tier's cap on the pixel ratio, in halves: 1 on mobile, else 2 ("time") or 1.5 ("frame")
DprCap(r, mobile) == IF mobile THEN 2 ELSE IF r = "time" THEN 4 ELSE 3

resizeCanvas(r, mobile, w, h, ratio) ==
  LET dpr == Min(IF ratio = 0 THEN 2 ELSE ratio, DprCap(r, mobile))
  IN  [width |-> (w * dpr) \div 2, height |-> (h * dpr) \div 2, dpr |-> dpr]

----------------------------------------------------------------------------
(* Math.random().  The stream of draws is fixed by a seed; draw k of node i *)
(* is digit k, in base 4, of seed + i.                                      *)

Draw(seed, i, k) == ((seed + i) \div (4 ^ k)) % 4

\* Math.random() * bound, for the draws 0, 1/4, 1/2 and 1 - 1/(2 * bound in px)
RandomCoord(q, bound) ==
  IF q < 3 THEN (q * bound) \div 4 ELSE Max(0, bound - Unit \div 2)

\* Math.cos and Math.sin of Math.random() * Math.PI * 2, for the draws 0, 1/4, 1/2, 3/4
Cos4(q) == <<1, 0, -1, 0>>[q + 1]
Sin4(q) == <<0, 1, 0, -1>>[q + 1]

\* r < 0.34 ? 'circle' : r < 0.67 ? 'triangle' : 'square', for the draws 0, 1/4, 1/2, 3/4
ShapeOf(q) == IF q < 2 THEN "circle" ELSE IF q = 2 THEN "triangle" ELSE "square"

----------------------------------------------------------------------------
(* createNodes *)

MinSpeedMobile == 60
MaxSpeedMobile == 120
MinSpeedStandard == 110
MaxSpeedStandard == 200
\* (Math.random() - 0.5) * 1.2 and * 2.6, the factors in 1/Unit px
SpreadMobile == 120
SpreadStandard == 260

\* minSpeed + Math.random() * (maxSpeed - minSpeed), px/s, for the draws that
\* give a multiple of 30 px/s: 0 and 1/2 on mobile, 1/9, 4/9 and 7/9 otherwise
SpeedOf(mobile, q) ==
  LET minSpeed == IF mobile THEN MinSpeedMobile ELSE MinSpeedStandard
      maxSpeed == IF mobile THEN MaxSpeedMobile ELSE MaxSpeedStandard
      r36      == IF mobile THEN <<0, 18>>[(q % 2) + 1] ELSE <<4, 16, 28>>[(q % 3) + 1]
  IN  minSpeed + (r36 * (maxSpeed - minSpeed)) \div 36

\* the Node pushed for index i by the "time" revision; vx, vy in 1/Unit px per second
NewNodeTime(cv, mobile, seed, gen, i) ==
  LET speed == SpeedOf(mobile, Draw(seed, i, 3))
      angle == Draw(seed, i, 2)
  IN  [id    |-> <<gen, i>>,
       x     |-> RandomCoord(Draw(seed, i, 0), cv.width * Unit),
       y     |-> RandomCoord(Draw(seed, i, 1), cv.height * Unit),
       vx    |-> Cos4(angle) * speed * Unit,
       vy    |-> Sin4(angle) * speed * Unit,
       shape |-> ShapeOf(Draw(seed + 2, i, 1))]

\* the Node pushed for index i by the "frame" revision; vx, vy in 1/Unit px per frame
NewNodeFrame(cv, mobile, seed, gen, i) ==
  LET spread == IF mobile THEN SpreadMobile ELSE SpreadStandard
  IN  [id    |-> <<gen, i>>,
       x     |-> RandomCoord(Draw(seed, i, 0), cv.width * Unit),
       y     |-> RandomCoord(Draw(seed, i, 1), cv.height * Unit),
       vx    |-> ((Draw(seed, i, 2) - 2) * spread) \div 4,
       vy    |-> ((Draw(seed, i, 3) - 2) * spread) \div 4,
       shape |-> "circle"]

\* nodeCount without the tier's ceiling: Math.min(maxForSmallScreens, ...) left out
NodeCountNoTierMax(r, mobile, cv) ==
  IF r = "time" THEN Min(BaseCapTime, (cv.width * cv.height) \div DensityDivisorTime)
                ELSE Min(BaseCapFrame, (cv.width * cv.height) \div DensityDivisorFrame)

\* nodeCount of createNodes
NodeCount(r, mobile, cv) ==
  LET area      == cv.width * cv.height
      baseCount == IF r = "time"
                   THEN Min(BaseCapTime, area \div DensityDivisorTime)
                   ELSE Min(BaseCapFrame, area \div DensityDivisorFrame)
      maxForSmallScreens ==
                   IF r = "time"
                   THEN (IF mobile THEN MobileMaxTime ELSE StandardMaxTime)
                   ELSE (IF mobile THEN MobileMaxFrame ELSE StandardMaxFrame)
  IN  Min(maxForSmallScreens, baseCount)

\* createNodes without nodesRef.current = []: the new nodes are pushed after the old
createNodesKeepOld(r, reduced, mobile, cv, old, seed, gen) ==
  IF reduced THEN <<>>
  ELSE old \o [i \in 1..NodeCount(r, mobile, cv) |->
                 IF r = "time" THEN NewNodeTime(cv, mobile, seed, gen, i)
                               ELSE NewNodeFrame(cv, mobile, seed, gen, i)]

\* createNodes: the new value of nodesRef.current; old is the array it replaces
createNodes(r, reduced, mobile, cv, old, seed, gen) ==
  IF reduced THEN <<>>
  ELSE [i \in 1..NodeCount(r, mobile, cv) |->
          IF r = "time" THEN NewNodeTime(cv, mobile, seed, gen, i)
                        ELSE NewNodeFrame(cv, mobile, seed, gen, i)]

----------------------------------------------------------------------------
(* updateNodes *)

\* StepAxis without the clamp Math.max(0, Math.min(bound, q))
StepAxisNoClamp(p, v, d, bound) ==
  LET q == p + d
  IN  [p |-> q,
       v |-> IF q < 0 \/ q > bound THEN -v ELSE v]

\* StepAxis without the reflection v *= -1
StepAxisNoFlip(p, v, d, bound) ==
  [p |-> Max(0, Min(bound, p + d)), v |-> v]

\* one axis of one node: integrate by d, reflect, clamp
StepAxis(p, v, d, bound) ==
  LET q == p + d
  IN  [p |-> Max(0, Min(bound, q)),
       v |-> IF q < 0 \/ q > bound THEN -v ELSE v]

\* the distance a velocity v covers in one step: v * dt ("time"), v ("frame")
Displacement(r, v, dt) == IF r = "time" THEN (v * dt) \div TicksPerSecond ELSE v

\* updateNode with the two tests exchanged: a crossing on x negates vy, one on y vx
updateNodeCrossed(r, n, cv, dt) ==
  LET ax == StepAxis(n.x, n.vx, Displacement(r, n.vx, dt), cv.width * Unit)
      ay == StepAxis(n.y, n.vy, Displacement(r, n.vy, dt), cv.height * Unit)
  IN  [n EXCEPT !.x = ax.p, !.vx = IF ay.v # n.vy THEN -n.vx ELSE n.vx,
                !.y = ay.p, !.vy = IF ax.v # n.vx THEN -n.vy ELSE n.vy]

\* updateNode with one test for both axes: a crossing on either axis negates vx and vy
updateNodeCoupled(r, n, cv, dt) ==
  LET ax  == StepAxis(n.x, n.vx, Displacement(r, n.vx, dt), cv.width * Unit)
      ay  == StepAxis(n.y, n.vy, Displacement(r, n.vy, dt), cv.height * Unit)
      out == ax.v # n.vx \/ ay.v # n.vy
  IN  [n EXCEPT !.x = ax.p, !.vx = IF out THEN -n.vx ELSE n.vx,
                !.y = ay.p, !.vy = IF out THEN -n.vy ELSE n.vy]

\* the body of the forEach of updateNodes for one node
updateNode(r, n, cv, dt) ==
  LET ax == StepAxis(n.x, n.vx, Displacement(r, n.vx, dt), cv.width * Unit)
      ay == StepAxis(n.y, n.vy, Displacement(r, n.vy, dt), cv.height * Unit)
  IN  [n EXCEPT !.x = ax.p, !.vx = ax.v, !.y = ay.p, !.vy = ay.v]

updateNodes(r, ns, cv, dt) == [i \in DOMAIN ns |-> updateNode(r, ns[i], cv, dt)]

----------------------------------------------------------------------------
(* drawConnections and drawNodes: the canvas calls they issue *)

Abs(a) == IF a < 0 THEN -a ELSE a

\* Math.sqrt(dx * dx + dy * dy) < maxDistance; the two comparisons before the
\* squares keep the products within TLC's 32-bit integers
DistanceBelow(a, b, limit) ==
  LET dx == a.x - b.x
      dy == a.y - b.y
  IN  /\ Abs(dx) < limit
      /\ Abs(dy) < limit
      /\ dx * dx + dy * dy < limit * limit

\* const maxDistance, in 1/Unit px
maxDistance(r) == (IF r = "time" THEN MaxDistanceTime ELSE MaxDistanceFrame) * Unit

\* Math.sqrt(n) rounded down, n below hi * hi, by bisection of lo..hi
RECURSIVE SqrtBetween(_, _, _)
SqrtBetween(n, lo, hi) ==
  IF hi - lo <= 1 THEN lo
  ELSE LET mid == (lo + hi) \div 2
       IN  IF mid * mid <= n THEN SqrtBetween(n, mid, hi) ELSE SqrtBetween(n, lo, mid)

\* const distance = Math.sqrt(dx * dx + dy * dy), in 1/Unit px rounded down, of two
\* nodes for which it is below limit
Distance(a, b, limit) ==
  SqrtBetween((a.x - b.x) * (a.x - b.x) + (a.y - b.y) * (a.y - b.y), 0, limit)

\* the factors of the link style, in hundredths: opacity (1 - distance / maxDistance)
\* * 0.5 or * 0.55; lineWidth 1.5, or 1.0 + t * 0.6
OpacityFactorTime == 50
OpacityFactorFrame == 55
LineWidthTime == 150
LineWidthBaseFrame == 100
LineWidthSpanFrame == 60

\* the alpha of ctx.strokeStyle for a link of the given distance, times 100 * maxDistance
LinkOpacity(r, distance) ==
  (maxDistance(r) - distance) * (IF r = "time" THEN OpacityFactorTime ELSE OpacityFactorFrame)

\* ctx.lineWidth for a link of the given distance, times 100 * maxDistance
LinkWidth(r, distance) ==
  IF r = "time" THEN LineWidthTime * maxDistance(r)
  ELSE LineWidthBaseFrame * maxDistance(r) + (maxDistance(r) - distance) * LineWidthSpanFrame

\* the inner loop of drawConnections for one i: the j from i + 1 on for which
\* ctx.stroke() is called
StrokedWith(ns, i, limit) ==
  { j \in (i + 1)..Len(ns) : DistanceBelow(ns[i], ns[j], limit) }

\* the outer loop: the pairs <<i, j>> for which ctx.stroke() is called
Stroked(ns, limit) ==
  UNION { { <<i, j>> : j \in StrokedWith(ns, i, limit) } : i \in 1..Len(ns) }

\* drawConnections without if (nodesRef.current.length > 120) return
drawConnectionsNoCeiling(r, mobile, ns) ==
  IF mobile THEN 0
  ELSE Cardinality(Stroked(ns, maxDistance(r)))

\* the number of ctx.stroke() calls of drawConnections
drawConnections(r, mobile, ns) ==
  IF mobile THEN 0
  ELSE IF Len(ns) > ConnectionCeiling THEN 0
  ELSE Cardinality(Stroked(ns, maxDistance(r)))

\* the number of ctx.fill() calls of drawNodes: one per node ("time"), two ("frame")
drawNodes(r, ns) == IF r = "time" THEN Len(ns) ELSE 2 * Len(ns)

----------------------------------------------------------------------------
(* animate: what one invocation with timestamp ts does, short of requesting *)
(* the next frame.  lst is last, clk is performance.now().                 *)

\* the body of animate from clearRect on, updated being the array updateNodes left:
\* the new value of last, the step used and the canvas calls of the two draw
\* functions.  The array is bound once, by the set it is drawn from.
Drawn(r, lastTs, step, mobile, reduced, updated) ==
  CHOOSE a \in { [last    |-> lastTs,
                  cleared |-> TRUE,
                  updated |-> ~reduced,
                  dt      |-> step,
                  nodes   |-> after,
                  strokes |-> IF reduced THEN 0 ELSE drawConnections(r, mobile, after),
                  fills   |-> IF reduced THEN 0 ELSE drawNodes(r, after)] :
                 after \in {updated} } : TRUE

\* animate of the "time" revision without Math.min(..., 0.033)
animateTimeNoCap(ts, lst, clk, ns, cv, mobile, reduced) ==
  LET last0 == IF lst = 0 THEN (IF ts # 0 THEN ts ELSE clk) ELSE lst
      dt    == Max(((ts - last0) * TicksPerSecond) \div 1000, 0)
      step  == IF dt # 0 THEN dt ELSE TicksPerSecond \div 60
  IN  Drawn("time", ts, step, mobile, reduced,
            IF reduced THEN ns ELSE updateNodes("time", ns, cv, step))

\* animate of the "time" revision: dt is capped at 0.033 s, and 1/60 s stands in for 0
animateTime(ts, lst, clk, ns, cv, mobile, reduced) ==
  LET last0 == IF lst = 0 THEN (IF ts # 0 THEN ts ELSE clk) ELSE lst
      dt    == Min(Max(((ts - last0) * TicksPerSecond) \div 1000, 0),
                   (33 * TicksPerSecond) \div 1000)
      step  == IF dt # 0 THEN dt ELSE TicksPerSecond \div 60
  IN  Drawn("time", ts, step, mobile, reduced,
            IF reduced THEN ns ELSE updateNodes("time", ns, cv, step))

\* animate of the "frame" revision without the 30 fps throttle of lines 332-335
animateFrameNoThrottle(ts, lst, clk, ns, cv, mobile, reduced) ==
  Drawn("frame", IF mobile THEN ts ELSE lst, 0, mobile, reduced,
        IF reduced THEN ns ELSE updateNodes("frame", ns, cv, 0))

animateFrame(ts, lst, clk, ns, cv, mobile, reduced) ==
  IF mobile /\ ts - lst < ThrottleMs
  THEN [last |-> lst, cleared |-> FALSE, updated |-> FALSE, dt |-> 0,
        nodes |-> ns, strokes |-> 0, fills |-> 0]
  ELSE Drawn("frame", IF mobile THEN ts ELSE lst, 0, mobile, reduced,
             IF reduced THEN ns ELSE updateNodes("frame", ns, cv, 0))

animate(r, ts, lst, clk, ns, cv, mobile, reduced) ==
  IF r = "time" THEN animateTime(ts, lst, clk, ns, cv, mobile, reduced)
                ELSE animateFrame(ts, lst, clk, ns, cv, mobile, reduced)

----------------------------------------------------------------------------
(* The frame scheduler of the platform *)

\* requestAnimationFrame(animate) at time clk, returning handle h
requestAnimationFrame(pend, h, clk) == pend \cup {[id |-> h, at |-> clk]}

\* cancelAnimationFrame(h)
cancelAnimationFrame(pend, h) == {c \in pend : c.id # h}

----------------------------------------------------------------------------
(* The mail relay function (src/unnamed/part_000): handler(event)           *)
(* A string is the sequence of its characters.                              *)

RECURSIVE TrimStart(_)
TrimStart(str) ==
  IF str # <<>> /\ Head(str) = " " THEN TrimStart(Tail(str)) ELSE str

RECURSIVE TrimEnd(_)
TrimEnd(str) ==
  IF str # <<>> /\ str[Len(str)] = " "
  THEN TrimEnd(SubSeq(str, 1, Len(str) - 1)) ELSE str

\* String.prototype.trim
Trim(str) == TrimEnd(TrimStart(str))

\* parts.filter(Boolean).join(' ')
RECURSIVE JoinNonEmpty(_)
JoinNonEmpty(parts) ==
  IF parts = <<>> THEN <<>>
  ELSE LET rest == JoinNonEmpty(Tail(parts))
       IN  IF Head(parts) = <<>> THEN rest
           ELSE IF rest = <<>> THEN Head(parts)
           ELSE Head(parts) \o <<" ">> \o rest

\* a field the payload does not have, and one that holds a number
Absent == <<"undefined">>
NotAString == <<"number">>
\* what an expression that throws evaluates to
Throws == <<"TypeError">>

\* (body.field || '').trim(): the string, or Throws when trim is not a function
Field(v) ==
  IF v = Absent THEN <<>>
  ELSE IF v = NotAString THEN Throws
  ELSE Trim(v)

\* the values of event.body: null, text that is not JSON, the JSON null, and objects
Strings == {<<>>, <<" ">>, <<"A", "l">>, <<" ", "B", " ">>}
Bodies ==
  {[kind |-> "none"], [kind |-> "text"], [kind |-> "null"]}
  \cup { [kind |-> "object", first_name |-> f, middle_name |-> Absent, last_name |-> l,
          phone |-> ph, message |-> m] :
          f \in Strings \cup {Absent}, l \in {Absent, <<"Z">>},
          ph \in {Absent, NotAString, <<"5", "5">>}, m \in {Absent, <<"h", "i">>} }
Methods == {"OPTIONS", "POST", "GET"}
Environments == [to : BOOLEAN, from : BOOLEAN, key : BOOLEAN]
\* the provider answers OK, answers with a non-OK status, or the request rejects
Outcomes == {"ok", "error", "rejected"}

\* the status codes the handler returns
StatusNoContent == 204
StatusMethodNotAllowed == 405
StatusNotConfigured == 500
StatusProviderError == 502
StatusOk == 200
StatusInvalid == 400

\* JSON.parse(event.body || '{}'): of kind "throws", "null" or "object"
Parse(b) ==
  IF b.kind = "text" THEN [kind |-> "throws"]
  ELSE IF b.kind = "null" THEN [kind |-> "null"]
  ELSE IF b.kind = "none"
  THEN [kind |-> "object", first_name |-> Absent, middle_name |-> Absent,
        last_name |-> Absent, phone |-> Absent, message |-> Absent]
  ELSE b

Reply(code, text) == [statusCode |-> code, body |-> text]

\* no mail handed to the provider, no response returned
NoMail == [from |-> "", to |-> "", fullName |-> <<>>, phone |-> <<>>, message |-> <<>>]
NoResponse == [statusCode |-> 0, body |-> ""]

\* the provider call made again after a failure
AttemptsRetrying(outcome) == IF outcome = "ok" THEN 1 ELSE 2

\* the number of calls of fetch in one pass through lines 60-74: a single await
\* outside any loop, whatever its outcome
Attempts(outcome) == 1

\* lines 40-85: the body is parsed, the mail is composed and posted; outcome is
\* what the provider call does.  Anything thrown is caught at line 86.
Relay(ev, en, outcome) ==
  LET body == Parse(ev.body)
      caught == [upstream |-> "none", sent |-> NoMail, fetches |-> 0,
                 response |-> Reply(StatusInvalid, "Invalid request")]
  IN  IF body.kind = "throws" \/ body.kind = "null" THEN caught
      ELSE LET first   == Field(body.first_name)
               middle  == Field(body.middle_name)
               lastN   == Field(body.last_name)
               phone   == Field(body.phone)
               message == Field(body.message)
           IN  IF Throws \in {first, middle, lastN, phone, message} THEN caught
               ELSE LET joined == Trim(JoinNonEmpty(<<first, middle, lastN>>))
                        mail   == [from     |-> IF en.from THEN "CONTACT_FROM_EMAIL"
                                                ELSE "Portfolio <onboarding@resend.dev>",
                                   to       |-> "CONTACT_TO_EMAIL",
                                   fullName |-> IF joined = <<>>
                                                THEN <<"V", "i", "s", "i", "t", "o", "r">>
                                                ELSE joined,
                                   phone    |-> IF phone = <<>> THEN <<"N", "/", "A">>
                                                ELSE phone,
                                   message  |-> IF message = <<>>
                                                THEN <<"(", "e", "m", "p", "t", "y", ")">>
                                                ELSE message]
                    IN  IF outcome = "rejected"
                        THEN [caught EXCEPT !.upstream = outcome, !.sent = mail,
                                            !.fetches = Attempts(outcome)]
                        ELSE IF outcome = "error"
                        THEN [upstream |-> outcome, sent |-> mail,
                              fetches |-> Attempts(outcome),
                              response |-> Reply(StatusProviderError, "Email provider error")]
                        ELSE [upstream |-> outcome, sent |-> mail,
                              fetches |-> Attempts(outcome),
                              response |-> Reply(StatusOk, "{\"ok\":true}")]

\* handler(event)
handler(ev, en, outcome) ==
  IF ev.httpMethod = "OPTIONS"
  THEN [upstream |-> "none", sent |-> NoMail, fetches |-> 0, response |-> Reply(StatusNoContent, "")]
  ELSE IF ev.httpMethod # "POST"
  THEN [upstream |-> "none", sent |-> NoMail, fetches |-> 0,
        response |-> Reply(StatusMethodNotAllowed, "Method Not Allowed")]
  ELSE IF ~en.to
  THEN [upstream |-> "none", sent |-> NoMail, fetches |-> 0,
        response |-> Reply(StatusNotConfigured, "CONTACT_TO_EMAIL is not configured")]
  ELSE IF ~en.key
  THEN [upstream |-> "none", sent |-> NoMail, fetches |-> 0,
        response |-> Reply(StatusNotConfigured, "RESEND_API_KEY is not configured")]
  ELSE Relay(ev, en, outcome)

\* no request has reached the function
RelayIdle ==
  /\ event = [httpMethod |-> "none", body |-> [kind |-> "none"]]
  /\ env = [to |-> FALSE, from |-> FALSE, key |-> FALSE]
  /\ upstream = "none"
  /\ sent = NoMail
  /\ response = NoResponse
  /\ fetches = 0

\* none of the pages is open; the gallery is a component whose effect has not run
NoGallery ==
  [phase |-> "init", cards |-> <<>>, w |-> 0, listeners |-> FALSE, id |-> 0,
   pending |-> {}, nextHandle |-> 1, clicks |-> 0, timers |-> {}, selected |-> -1,
   state |-> [rx |-> 0, ry |-> 0, trx |-> 0, try |-> 0, orbit |-> 0],
   transform |-> [ry |-> 0, rx |-> 0]]

\* Talk as first rendered: useState(''), useState([]), useState(false); request is
\* the body of the latest request, sends and requests count the invocations of send
\* and of fetch
NoRequest == <<>>
NoTalk ==
  [input |-> <<>>, messages |-> <<>>, loading |-> FALSE, inFlight |-> FALSE,
   request |-> NoRequest, sends |-> 0, requests |-> 0]
\* neither Works nor Certification is rendered; on a page, code is the state of its
\* AdminGate, reader the file a FileReader is reading, submits the number of
\* submissions of the gate modulo 2 and submitted what the latest one did
NoGate ==
  [page |-> "none", isAdmin |-> FALSE, code |-> <<>>, imagePreview |-> "null",
   reader |-> "none", submits |-> 0, submitted |-> "none"]
\* escapeHtml has not been called
NoEscape == [input |-> <<>>, output |-> <<>>, called |-> FALSE]
PagesIdle ==
  /\ gallery = NoGallery
  /\ talk = NoTalk
  /\ gate = NoGate
  /\ escaped = NoEscape

----------------------------------------------------------------------------
(* The state before the effect runs *)

\* frame.since is last as the invocation found it; frame.executed is the timestamp
\* of the latest invocation that ran the body from clearRect on, -1 while none did
NoFrame == [ts |-> 0, cleared |-> FALSE, updated |-> FALSE, dt |-> 0,
            before |-> <<>>, strokes |-> 0, fills |-> 0, since |-> 0, executed |-> -1]
NoPause == [state |-> "none", nodes |-> <<>>, resized |-> FALSE]

\* the component about to be mounted on one of the devices devs
InitOn(devs) ==
  /\ rev \in {"time", "frame"}
  /\ surface \in Surfaces
  /\ phase = "init"
  /\ now \in StartTimes
  /\ \E dev \in devs : /\ innerWidth = dev[1]
                          /\ innerHeight = dev[2]
                          /\ devicePixelRatio = dev[3]
                          /\ deviceMemory = dev[4]
                          /\ prefersReducedMotion = dev[5]
  /\ visibilityState \in {"visible", "hidden"}
  /\ isMobileMode = FALSE
  /\ canvas = [width |-> 300, height |-> 150, dpr |-> 2]
  /\ nodes = <<>>
  /\ generation = 0
  /\ last = 0
  /\ animationRef = 0
  /\ pending = {}
  /\ nextHandle = 1
  /\ resizeListener = FALSE
  /\ visibilityListener = FALSE
  /\ calls = [clear |-> 0, stroke |-> 0, fill |-> 0]
  /\ frame = NoFrame
  /\ frames = 0
  /\ pause = NoPause
  /\ RelayIdle
  /\ PagesIdle

Init == InitOn(Devices)

\* one invocation of animate that ends without requesting the next frame
RunAnimateOnce(ts, ns, cv, mobile, pend) ==
  /\ nextHandle <= MaxHandle
  /\ \E a \in {animate(rev, ts, last, now, ns, cv, mobile, prefersReducedMotion)} :
       /\ last' = a.last
       /\ nodes' = a.nodes
       /\ calls' = [clear  |-> calls.clear + (IF a.cleared THEN 1 ELSE 0),
                    stroke |-> calls.stroke + a.strokes,
                    fill   |-> calls.fill + a.fills]
       /\ frame' = [ts |-> ts, cleared |-> a.cleared, updated |-> a.updated, dt |-> a.dt,
                    before |-> ns, strokes |-> a.strokes, fills |-> a.fills,
                    since |-> last,
                    executed |-> IF a.cleared THEN ts ELSE frame.executed]
       /\ pause' = IF pause.state = "resumed" /\ a.updated
                   THEN NoPause ELSE pause
  /\ frames' = frames + 1
  /\ animationRef' = animationRef
  /\ pending' = pend
  /\ nextHandle' = nextHandle

\* one invocation of animate at ts on the array ns, pend being the callbacks
\* still pending: the body, then animationRef.current = requestAnimationFrame(animate)
RunAnimate(ts, ns, cv, mobile, pend) ==
  /\ nextHandle <= MaxHandle
  /\ \E a \in {animate(rev, ts, last, now, ns, cv, mobile, prefersReducedMotion)} :
       /\ last' = a.last
       /\ nodes' = a.nodes
       /\ calls' = [clear  |-> calls.clear + (IF a.cleared THEN 1 ELSE 0),
                    stroke |-> calls.stroke + a.strokes,
                    fill   |-> calls.fill + a.fills]
       /\ frame' = [ts |-> ts, cleared |-> a.cleared, updated |-> a.updated, dt |-> a.dt,
                    before |-> ns, strokes |-> a.strokes, fills |-> a.fills,
                    since |-> last,
                    executed |-> IF a.cleared THEN ts ELSE frame.executed]
       /\ pause' = IF pause.state = "resumed" /\ a.updated
                   THEN NoPause ELSE pause
  /\ frames' = frames + 1
  /\ animationRef' = nextHandle
  /\ pending' = requestAnimationFrame(pend, nextHandle, ts)
  /\ nextHandle' = nextHandle + 1

\* the effect of useEffect: tier, resizeCanvas(), createNodes(), animate() unless
\* motion is reduced, then the two listeners
Mount(seed) ==
  /\ phase = "init"
  /\ SurfaceAcquired(surface)
  /\ LET mobile  == MobileMode(innerWidth, deviceMemory)
         cv      == resizeCanvas(rev, mobile, innerWidth, innerHeight, devicePixelRatio)
         created == createNodes(rev, prefersReducedMotion, mobile, cv, nodes, seed,
                                generation + 1)
     IN  /\ isMobileMode' = mobile
         /\ canvas' = cv
         /\ generation' = generation + 1
         /\ IF prefersReducedMotion
            THEN /\ nodes' = created
                 /\ UNCHANGED <<last, calls, frame, frames, animationRef, pending,
                                nextHandle, pause>>
            ELSE RunAnimate(0, created, cv, mobile, pending)
  /\ resizeListener' = TRUE
  /\ visibilityListener' = TRUE
  /\ phase' = "mounted"
  /\ UNCHANGED <<relay, pages, rev, surface, now, innerWidth, innerHeight, devicePixelRatio, deviceMemory,
                 visibilityState, prefersReducedMotion>>

\* the effect of useEffect when the canvas or its context is null: it returns at once
MountWithoutSurface ==
  /\ phase = "init"
  /\ ~SurfaceAcquired(surface)
  /\ phase' = "mounted"
  /\ UNCHANGED <<relay, pages, rev, surface, now, innerWidth, innerHeight, devicePixelRatio, deviceMemory,
                 visibilityState, prefersReducedMotion, isMobileMode, canvas, nodes,
                 generation, last, animationRef, pending, nextHandle, resizeListener,
                 visibilityListener, calls, frame, frames, pause>>

\* the platform runs the pending callback cb with a timestamp d ms after the
\* current time; a callback never runs in the frame that requested it
Frame(cb, d) ==
  /\ cb \in pending
  /\ now + d > cb.at
  /\ now' = now + d
  /\ RunAnimate(now + d, nodes, canvas, isMobileMode, pending \ {cb})
  /\ UNCHANGED <<relay, pages, rev, surface, phase, innerWidth, innerHeight, devicePixelRatio, deviceMemory,
                 visibilityState, prefersReducedMotion, isMobileMode, canvas,
                 generation, resizeListener, visibilityListener>>

\* handleResize restarting the loop: the pending callback cancelled, a new one requested
ResizeRestarting(v, seed) ==
  /\ phase # "init"
  /\ resizeListener
  /\ v # <<innerWidth, innerHeight>>
  /\ generation < MaxGen
  /\ nextHandle <= MaxHandle + 1
  /\ innerWidth' = v[1]
  /\ innerHeight' = v[2]
  /\ \E cv \in {resizeCanvas(rev, isMobileMode, v[1], v[2], devicePixelRatio)} :
       /\ canvas' = cv
       /\ nodes' = createNodes(rev, prefersReducedMotion, isMobileMode, cv, nodes,
                               seed, generation + 1)
  /\ generation' = generation + 1
  /\ pause' = [pause EXCEPT !.resized = TRUE, !.nodes = <<>>]
  /\ animationRef' = nextHandle
  /\ pending' = requestAnimationFrame(cancelAnimationFrame(pending, animationRef),
                                       nextHandle, now)
  /\ nextHandle' = nextHandle + 1
  /\ UNCHANGED <<relay, pages, rev, surface, phase, now, devicePixelRatio, deviceMemory,
                 visibilityState, prefersReducedMotion, isMobileMode, last,
                 resizeListener, visibilityListener, calls, frame, frames>>

\* the viewport changes to v while the resize listener is registered: handleResize
Resize(v, seed) ==
  /\ phase # "init"
  /\ resizeListener
  /\ v # <<innerWidth, innerHeight>>
  /\ generation < MaxGen
  /\ innerWidth' = v[1]
  /\ innerHeight' = v[2]
  /\ \E cv \in {resizeCanvas(rev, isMobileMode, v[1], v[2], devicePixelRatio)} :
       /\ canvas' = cv
       /\ nodes' = createNodes(rev, prefersReducedMotion, isMobileMode, cv, nodes,
                               seed, generation + 1)
  /\ generation' = generation + 1
  /\ pause' = [pause EXCEPT !.resized = TRUE, !.nodes = <<>>]
  /\ UNCHANGED <<relay, pages, rev, surface, phase, now, devicePixelRatio, deviceMemory, visibilityState,
                 prefersReducedMotion, isMobileMode, last, animationRef, pending,
                 nextHandle, resizeListener, visibilityListener, calls, frame, frames>>

\* the viewport changes to v after the resize listener was removed
ResizeUnobserved(v) ==
  /\ phase # "init"
  /\ ~resizeListener
  /\ v # <<innerWidth, innerHeight>>
  /\ innerWidth' = v[1]
  /\ innerHeight' = v[2]
  /\ UNCHANGED <<relay, pages, rev, surface, phase, now, devicePixelRatio, deviceMemory, visibilityState,
                 prefersReducedMotion, isMobileMode, canvas, nodes, generation, last,
                 animationRef, pending, nextHandle, resizeListener, visibilityListener,
                 calls, frame, frames, pause>>

\* the page becomes hidden; onVisibility runs if it is registered
Hide ==
  /\ phase # "init"
  /\ visibilityState = "visible"
  /\ visibilityState' = "hidden"
  /\ IF visibilityListener
     THEN /\ pending' = IF animationRef # 0
                        THEN cancelAnimationFrame(pending, animationRef) ELSE pending
          /\ pause' = [state |-> "hidden", nodes |-> nodes, resized |-> FALSE]
     ELSE UNCHANGED <<pending, pause>>
  /\ UNCHANGED <<relay, pages, rev, surface, phase, now, innerWidth, innerHeight, devicePixelRatio, deviceMemory,
                 prefersReducedMotion, isMobileMode, canvas, nodes, generation, last,
                 animationRef, nextHandle, resizeListener, visibilityListener, calls,
                 frame, frames>>

\* the page becomes visible; onVisibility runs if it is registered
Show ==
  /\ phase # "init"
  /\ visibilityState = "hidden"
  /\ visibilityState' = "visible"
  /\ IF visibilityListener
     THEN /\ nextHandle <= MaxHandle + 1
          /\ animationRef' = nextHandle
          /\ pending' = requestAnimationFrame(pending, nextHandle, now)
          /\ nextHandle' = nextHandle + 1
          /\ pause' = IF pause.state = "hidden"
                      THEN [pause EXCEPT !.state = "resumed"] ELSE pause
     ELSE UNCHANGED <<animationRef, pending, nextHandle, pause>>
  /\ UNCHANGED <<relay, pages, rev, surface, phase, now, innerWidth, innerHeight, devicePixelRatio, deviceMemory,
                 prefersReducedMotion, isMobileMode, canvas, nodes, generation, last,
                 resizeListener, visibilityListener, calls, frame, frames>>

\* the cleanup the effect returns
Cleanup ==
  /\ phase = "mounted"
  /\ phase' = "unmounted"
  /\ resizeListener' = FALSE
  /\ visibilityListener' = FALSE
  /\ pending' = IF animationRef # 0
                THEN cancelAnimationFrame(pending, animationRef) ELSE pending
  /\ UNCHANGED <<relay, pages, rev, surface, now, innerWidth, innerHeight, devicePixelRatio, deviceMemory,
                 visibilityState, prefersReducedMotion, isMobileMode, canvas, nodes,
                 generation, last, animationRef, nextHandle, calls, frame, frames, pause>>

Next ==
  \/ \E seed \in Seeds : Mount(seed)
  \/ MountWithoutSurface
  \/ \E cb \in pending, d \in Steps : Frame(cb, d)
  \/ \E v \in Viewports, seed \in Seeds : Resize(v, seed)
  \/ \E v \in Viewports : ResizeUnobserved(v)
  \/ Hide
  \/ Show
  \/ Cleanup

Spec == Init /\ [][Next]_vars

\* the component on the devices with small canvases
SmallInit == InitOn(SmallDevices)
SmallSpec == SmallInit /\ [][Next]_vars

\* a fair frame scheduler with advancing timestamps: while a callback is pending
\* and may run, eventually one runs 40 ms after the current time
FairInit == InitOn(FairDevices)

\* the steps of Next with one state of the Math.random() stream, one viewport to
\* resize to, and timestamps that advance from one callback to the next
FairNext ==
  \/ \E seed \in FairSeeds : Mount(seed)
  \/ MountWithoutSurface
  \/ \E cb \in pending, d \in FairSteps : Frame(cb, d)
  \/ \E v \in FairViewports, seed \in FairSeeds : Resize(v, seed)
  \/ \E v \in FairViewports : ResizeUnobserved(v)
  \/ Hide
  \/ Show
  \/ Cleanup

FairSpec == FairInit /\ [][FairNext]_vars /\ WF_vars(\E cb \in pending : Frame(cb, 40))

----------------------------------------------------------------------------
(* The mail relay: one invocation of handler per behaviour *)

\* the component is not part of the function's deployment
EngineIdle ==
  /\ rev = "time"
  /\ surface = "noCanvas"
  /\ phase = "init"
  /\ now = 0
  /\ innerWidth = 0
  /\ innerHeight = 0
  /\ devicePixelRatio = 0
  /\ deviceMemory = 0
  /\ visibilityState = "hidden"
  /\ prefersReducedMotion = FALSE
  /\ isMobileMode = FALSE
  /\ canvas = [width |-> 300, height |-> 150, dpr |-> 2]
  /\ nodes = <<>>
  /\ generation = 0
  /\ last = 0
  /\ animationRef = 0
  /\ pending = {}
  /\ nextHandle = 1
  /\ resizeListener = FALSE
  /\ visibilityListener = FALSE
  /\ calls = [clear |-> 0, stroke |-> 0, fill |-> 0]
  /\ frame = NoFrame
  /\ frames = 0
  /\ pause = NoPause

engine == <<rev, surface, phase, now, innerWidth, innerHeight, devicePixelRatio,
            deviceMemory, visibilityState, prefersReducedMotion, isMobileMode, canvas,
            nodes, generation, last, animationRef, pending, nextHandle, resizeListener,
            visibilityListener, calls, frame, frames, pause>>

RelayInit ==
  /\ EngineIdle
  /\ event \in [httpMethod : Methods, body : Bodies]
  /\ env \in Environments
  /\ upstream = "none"
  /\ sent = NoMail
  /\ response = NoResponse
  /\ fetches = 0
  /\ PagesIdle

\* the platform invokes handler(event); the provider call, if made, ends as outcome
Handle(outcome) ==
  /\ response = NoResponse
  /\ \E h \in {handler(event, env, outcome)} :
       /\ upstream' = h.upstream
       /\ sent' = h.sent
       /\ response' = h.response
       /\ fetches' = h.fetches
  /\ UNCHANGED <<event, env, engine, pages>>

RelayNext == \E outcome \in Outcomes : Handle(outcome)

RelaySpec == RelayInit /\ [][RelayNext]_vars

----------------------------------------------------------------------------
(* The hologram gallery (components/VanillaHologramAbout.tsx).  Card 0 is   *)
(* the center card, a child of the stage; cards 1.. are the orbit cards,    *)
(* children of the gallery element.  Lengths are in px, angles in 1/100 deg *)

FocusBoost == 120
NarrowWidth == 520
\* radius = w * 0.36 or w * 0.42, in hundredths
RadiusNarrow == 36
RadiusWide == 42
\* state.orbit + 0.10 per frame, modulo 360
OrbitStep == 10
FullTurn == 36000
\* damp = 0.06, in hundredths
Damp == 6
\* (x - 0.5) * 32 and -(y - 0.5) * 10, in degrees
ParallaxY == 32
ParallaxX == 10

\* the numbers of panels, the sizes of the gallery's rectangle and the positions of
\* the pointer in it, in percent of its width and height
PanelCounts == {0, 1, 3}
GalleryWidths == {500, 1000}
PointerPositions == {<<0, 0>>, <<100, 50>>}

\* the cards of n panels; card k of the sequence is the card with dataset.index k - 1
\* attached: the element is in the document
CenterCard ==
  [dataIndex |-> 0, center |-> TRUE, attached |-> TRUE, focus |-> FALSE, z |-> 0,
   transition |-> FALSE]
OrbitCard(i) ==
  [dataIndex |-> i, center |-> FALSE, attached |-> TRUE, focus |-> FALSE, z |-> 0,
   transition |-> FALSE]
BuildCards(n) == [k \in 1..n |-> IF k = 1 THEN CenterCard ELSE OrbitCard(k - 1)]

\* z of layoutCards for a rectangle whose smaller side is w
Radius(w) == (w * (IF w < NarrowWidth THEN RadiusNarrow ELSE RadiusWide)) \div 100

\* layoutCards: the transform of every card of the gallery element is set again
layoutCards(cards, w) ==
  [k \in DOMAIN cards |-> IF cards[k].center THEN cards[k]
                          ELSE [cards[k] EXCEPT !.z = Radius(w)]]

\* gallery.querySelector('.vhg-card.is-focus'): the first focused card of the gallery
\* element, 0 if there is none
FocusedInGallery(cards) ==
  LET found == { k \in DOMAIN cards : ~cards[k].center /\ cards[k].focus }
  IN  IF found = {} THEN 0 ELSE CHOOSE k \in found : \A m \in found : k <= m

\* onClick on card k: the cards after its lines 129-137
onClick(cards, k, w) ==
  LET focused == FocusedInGallery(cards)
      cleared == IF focused # 0 /\ focused # k
                 THEN [cards EXCEPT ![focused].focus = FALSE] ELSE cards
      toggled == ~cleared[k].focus
      baseZ   == cleared[k].z
  IN  [cleared EXCEPT ![k].focus = toggled,
                      ![k].transition = TRUE,
                      ![k].z = baseZ + (IF toggled THEN FocusBoost ELSE 0)]

\* the effect: the cards are built and laid out, the listeners added, raf requested
GalleryMount(n, w) ==
  /\ gallery.phase = "init"
  /\ gallery' = [gallery EXCEPT !.phase = "mounted",
                                 !.cards = layoutCards(BuildCards(n), w),
                                 !.w = w,
                                 !.listeners = TRUE,
                                 !.id = gallery.nextHandle,
                                 !.pending = {gallery.nextHandle},
                                 !.nextHandle = gallery.nextHandle + 1]
  /\ UNCHANGED <<relay, engine, talk, gate, escaped>>

\* raf, run by the platform for the pending handle h
GalleryFrame(h) ==
  /\ h \in gallery.pending
  /\ gallery.nextHandle <= MaxHandle
  /\ LET st == gallery.state
         ry == st.ry + ((st.try - st.ry) * Damp) \div 100
         rx == st.rx + ((st.trx - st.rx) * Damp) \div 100
         orbit == (st.orbit + OrbitStep) % FullTurn
     IN  gallery' = [gallery EXCEPT
                       !.state = [st EXCEPT !.ry = ry, !.rx = rx, !.orbit = orbit],
                       !.transform = [ry |-> ry + orbit, rx |-> rx],
                       !.pending = (gallery.pending \ {h}) \cup {gallery.nextHandle},
                       !.nextHandle = gallery.nextHandle + 1]
  /\ UNCHANGED <<relay, engine, talk, gate, escaped>>

\* a pointermove or touchmove at position pos of the gallery's rectangle
GalleryPointerMove(pos) ==
  /\ gallery.listeners
  /\ gallery' = [gallery EXCEPT !.state.try = ((pos[1] - 50) * ParallaxY),
                                 !.state.trx = -((pos[2] - 50) * ParallaxX)]
  /\ gallery' # gallery
  /\ UNCHANGED <<relay, engine, talk, gate, escaped>>

\* a click on card k
GalleryClick(k) ==
  /\ gallery.listeners
  /\ gallery.clicks < MaxClicks
  /\ k \in DOMAIN gallery.cards
  /\ gallery' = [gallery EXCEPT !.cards = onClick(gallery.cards, k, gallery.w),
                                 !.clicks = gallery.clicks + 1,
                                 !.timers = gallery.timers \cup {k},
                                 !.selected = gallery.cards[k].dataIndex]
  /\ UNCHANGED <<relay, engine, talk, gate, escaped>>

\* the timer of a click on card k, 400 ms later: card.style.transition = ''
GalleryTimeout(k) ==
  /\ k \in gallery.timers
  /\ gallery' = [gallery EXCEPT !.cards[k].transition = FALSE,
                                 !.timers = gallery.timers \ {k}]
  /\ UNCHANGED <<relay, engine, talk, gate, escaped>>

\* the window is resized, the rectangle's smaller side becoming w: layoutCards
GalleryResize(w) ==
  /\ gallery.listeners
  /\ w # gallery.w
  /\ gallery' = [gallery EXCEPT !.cards = layoutCards(gallery.cards, w), !.w = w]
  /\ UNCHANGED <<relay, engine, talk, gate, escaped>>

\* the cleanup of the effect: cancelAnimationFrame(id), the listeners and the center
\* card removed
GalleryCleanup ==
  /\ gallery.phase = "mounted"
  /\ gallery' = [gallery EXCEPT
                    !.phase = "unmounted",
                    !.pending = gallery.pending \ {gallery.id},
                    !.listeners = FALSE,
                    !.cards = [k \in DOMAIN gallery.cards |->
                                 IF gallery.cards[k].center
                                 THEN [gallery.cards[k] EXCEPT !.attached = FALSE]
                                 ELSE gallery.cards[k]]]
  /\ UNCHANGED <<relay, engine, talk, gate, escaped>>

GalleryInit ==
  /\ EngineIdle
  /\ RelayIdle
  /\ PagesIdle

GalleryNext ==
  \/ \E n \in PanelCounts, w \in GalleryWidths : GalleryMount(n, w)
  \/ \E h \in gallery.pending : GalleryFrame(h)
  \/ \E pos \in PointerPositions : GalleryPointerMove(pos)
  \/ \E k \in DOMAIN gallery.cards : GalleryClick(k)
  \/ \E k \in gallery.timers : GalleryTimeout(k)
  \/ \E w \in GalleryWidths : GalleryResize(w)
  \/ GalleryCleanup

GallerySpec == GalleryInit /\ [][GalleryNext]_vars

----------------------------------------------------------------------------
(* The chat widget (App.tsx and src/unnamed/part_001, the same text): Talk  *)

\* what the user types, and what the request to /.netlify/functions/talk does:
\* a reply, a JSON answer without reply, or a rejection or an answer that is not
\* an object
TalkInputs == {<<>>, <<" ">>, <<" ", "h", "i">>}
TalkOutcomes == {"reply", "noReply", "failed"}

ReplyText == <<"o", "k">>
NoResponseText == <<"N", "o", " ", "r", "e", "s", "p", "o", "n", "s", "e">>
ErrorText == <<"E", "r", "r", "o", "r", " ", "r", "e", "a", "c", "h", "i", "n", "g", " ",
               "a", "s", "s", "i", "s", "t", "a", "n", "t", ".">>

SliceCount == 10

\* the body with the first ten messages in place of the last ten
RequestBodyFromStart(messages, userMsg) ==
  LET all == Append(messages, userMsg)
  IN  SubSeq(all, 1, Min(Len(all), SliceCount))

\* [...messages, userMsg].slice(-10)
RequestBody(messages, userMsg) ==
  LET all == Append(messages, userMsg)
  IN  SubSeq(all, Max(1, Len(all) - SliceCount + 1), Len(all))

\* the assistant entry appended when the request settles: data.reply || 'No response'
\* in the try block, the fixed text in the catch block
AssistantEntry(outcome) ==
  [role |-> "assistant",
   content |-> IF outcome = "reply" THEN ReplyText
               ELSE IF outcome = "noReply" THEN NoResponseText
               ELSE ErrorText]

\* onChange of the input: setInput(e.target.value)
TalkType(text) ==
  /\ text # talk.input
  /\ talk' = [talk EXCEPT !.input = text]
  /\ UNCHANGED <<relay, engine, gallery, gate, escaped>>

\* a click on the Send button, which is disabled while loading: send() up to the
\* await of fetch
TalkSend ==
  /\ ~talk.loading
  /\ talk.sends < MaxSends
  /\ IF Trim(talk.input) = <<>>
     THEN talk' = [talk EXCEPT !.sends = talk.sends + 1]
     ELSE LET userMsg == [role |-> "user", content |-> talk.input]
          IN  talk' = [talk EXCEPT !.sends = talk.sends + 1,
                                   !.messages = Append(talk.messages, userMsg),
                                   !.input = <<>>,
                                   !.loading = TRUE,
                                   !.inFlight = TRUE,
                                   !.request = RequestBody(talk.messages, userMsg),
                                   !.requests = talk.requests + 1]
  /\ UNCHANGED <<relay, engine, gallery, gate, escaped>>

\* the request settles: the rest of send(), through the finally block
TalkSettle(outcome) ==
  /\ talk.inFlight
  /\ talk' = [talk EXCEPT !.messages = Append(talk.messages, AssistantEntry(outcome)),
                           !.loading = FALSE,
                           !.inFlight = FALSE]
  /\ UNCHANGED <<relay, engine, gallery, gate, escaped>>

TalkInit ==
  /\ EngineIdle
  /\ RelayIdle
  /\ PagesIdle

TalkNext ==
  \/ \E text \in TalkInputs : TalkType(text)
  \/ TalkSend
  \/ \E outcome \in TalkOutcomes : TalkSettle(outcome)

TalkSpec == TalkInit /\ [][TalkNext]_vars

----------------------------------------------------------------------------
(* The admin gate (App.tsx): AdminGate inside Works and Certification       *)

GatePages == {"Works", "Certification"}
\* the characters typed into the gate, and the files chosen in the upload form
CodeChars == {"6", "5", "3", "2", " "}
Files == {"none", "a.png", "b.png"}

AdminCode == <<"6", "5", "3", "2">>

\* the test of submit with the code trimmed first
CodeAcceptedTrimmed(code) == Trim(code) = AdminCode

\* code === '6532'
CodeAccepted(code) == code = AdminCode

\* !isAdmin ? <AdminGate .../> : <form ...>
UploadFormShown(g) == g.page \in GatePages /\ g.isAdmin
AdminGateShown(g) == g.page \in GatePages /\ ~g.isAdmin

\* the route changes to one of the two pages: the component is mounted
GateOpen(p) ==
  /\ gate.page = "none"
  /\ gate' = [NoGate EXCEPT !.page = p]
  /\ UNCHANGED <<relay, engine, gallery, talk, escaped>>

\* the route changes to another page: the component is unmounted, its state dropped
GateLeave ==
  /\ gate.page # "none"
  /\ gate' = NoGate
  /\ UNCHANGED <<relay, engine, gallery, talk, escaped>>

\* onChange of the gate's input after a character is typed: setCode(e.target.value)
GateType(ch) ==
  /\ AdminGateShown(gate)
  /\ Len(gate.code) < MaxCodeLen
  /\ gate' = [gate EXCEPT !.code = Append(gate.code, ch)]
  /\ UNCHANGED <<relay, engine, gallery, talk, escaped>>

\* onChange of the gate's input after the last character is deleted
GateDelete ==
  /\ AdminGateShown(gate)
  /\ gate.code # <<>>
  /\ gate' = [gate EXCEPT !.code = SubSeq(gate.code, 1, Len(gate.code) - 1)]
  /\ UNCHANGED <<relay, engine, gallery, talk, escaped>>

\* submit of AdminGate: onUnlock(), which is setIsAdmin(true) and unmounts the gate,
\* or alert('Wrong admin code')
GateSubmit ==
  /\ AdminGateShown(gate)
  /\ gate' = IF CodeAccepted(gate.code)
             THEN [gate EXCEPT !.isAdmin = TRUE, !.code = <<>>,
                               !.submits = 1 - gate.submits, !.submitted = "unlock"]
             ELSE [gate EXCEPT !.submits = 1 - gate.submits, !.submitted = "alert"]
  /\ UNCHANGED <<relay, engine, gallery, talk, escaped>>

\* onFileChange of the upload form
GateFileChange(file) ==
  /\ UploadFormShown(gate)
  /\ gate' = IF file # "none" THEN [gate EXCEPT !.reader = file]
             ELSE [gate EXCEPT !.imagePreview = "null"]
  /\ gate' # gate
  /\ UNCHANGED <<relay, engine, gallery, talk, escaped>>

\* reader.onload: setImagePreview(reader.result)
GateFileLoaded ==
  /\ gate.page # "none"
  /\ gate.reader # "none"
  /\ gate' = [gate EXCEPT !.imagePreview = gate.reader, !.reader = "none"]
  /\ UNCHANGED <<relay, engine, gallery, talk, escaped>>

GateInit ==
  /\ EngineIdle
  /\ RelayIdle
  /\ PagesIdle

GateNext ==
  \/ \E p \in GatePages : GateOpen(p)
  \/ GateLeave
  \/ \E ch \in CodeChars : GateType(ch)
  \/ GateDelete
  \/ GateSubmit
  \/ \E file \in Files : GateFileChange(file)
  \/ GateFileLoaded

GateSpec == GateInit /\ [][GateNext]_vars

----------------------------------------------------------------------------
(* escapeHtml (src/unnamed/part_000).  A string is the sequence of its      *)
(* characters.                                                              *)

\* the characters of the inputs: the five escapeHtml replaces, a letter and ';'
EscapeChars == {"&", "<", ">", "\"", "'", "a", ";"}
EscapeInputs == UNION { [1..n -> EscapeChars] : n \in 0..MaxLen }

Amp == <<"&", "a", "m", "p", ";">>
Lt == <<"&", "l", "t", ";">>
Gt == <<"&", "g", "t", ";">>
Quot == <<"&", "q", "u", "o", "t", ";">>
Apos == <<"&", "#", "0", "3", "9", ";">>

\* str.replace(/ch/g, entity)
RECURSIVE ReplaceAll(_, _, _)
ReplaceAll(str, ch, entity) ==
  IF str = <<>> THEN <<>>
  ELSE (IF Head(str) = ch THEN entity ELSE <<Head(str)>>) \o ReplaceAll(Tail(str), ch, entity)

\* escapeHtml with the replacement of & made last
escapeHtmlAmpLast(input) ==
  ReplaceAll(ReplaceAll(ReplaceAll(ReplaceAll(ReplaceAll(input,
    "<", Lt), ">", Gt), "\"", Quot), "'", Apos), "&", Amp)

\* the five replacements of escapeHtml, in the order of lines 93-97
escapeHtml(input) ==
  ReplaceAll(ReplaceAll(ReplaceAll(ReplaceAll(ReplaceAll(input,
    "&", Amp), "<", Lt), ">", Gt), "\"", Quot), "'", Apos)

\* escapeHtml is about to be called with one of the inputs
EscapeInit ==
  /\ EngineIdle
  /\ RelayIdle
  /\ gallery = NoGallery
  /\ talk = NoTalk
  /\ gate = NoGate
  /\ escaped \in { [NoEscape EXCEPT !.input = str] : str \in EscapeInputs }

\* the call returns
EscapeCall ==
  /\ ~escaped.called
  /\ escaped' = [escaped EXCEPT !.output = escapeHtml(escaped.input), !.called = TRUE]
  /\ UNCHANGED <<relay, engine, gallery, talk, gate>>

EscapeNext == EscapeCall

EscapeSpec == EscapeInit /\ [][EscapeNext]_vars

----------------------------------------------------------------------------
(* What the claims speak of *)

\* the identities of the Node objects of an array
Ids(ns) == { ns[i].id : i \in DOMAIN ns }

\* the bounds of the canvas, in 1/Unit px
CanvasWidth == canvas.width * Unit
CanvasHeight == canvas.height * Unit

\* tierMaxCount and densityDivisor of the count formula
TierCeiling(r, mobile) ==
  IF r = "time" THEN (IF mobile THEN MobileMaxTime ELSE StandardMaxTime)
                ELSE (IF mobile THEN MobileMaxFrame ELSE StandardMaxFrame)
DensityDivisor(r) == IF r = "time" THEN DensityDivisorTime ELSE DensityDivisorFrame

\* node i of the current array is node i of the array the latest update step ran on
Updated(i) ==
  /\ frame.updated
  /\ i \in DOMAIN nodes
  /\ i \in DOMAIN frame.before
  /\ nodes[i].id = frame.before[i].id

\* the coordinates of node i after the integration of the latest update step
IntegratedX(i) == frame.before[i].x + Displacement(rev, frame.before[i].vx, frame.dt)
IntegratedY(i) == frame.before[i].y + Displacement(rev, frame.before[i].vy, frame.dt)

----------------------------------------------------------------------------
(* C1.  Boundary invariant: in every reachable state, after any frames,     *)
(* resizes and visibility changes, every particle has 0 <= x <= canvas.width *)
(* and 0 <= y <= canvas.height.                                             *)
C1_BoundaryInvariant ==
  \A i \in DOMAIN nodes :
    /\ 0 <= nodes[i].x /\ nodes[i].x <= CanvasWidth
    /\ 0 <= nodes[i].y /\ nodes[i].y <= CanvasHeight

\* an update step integrated a particle past the lower edge and left it on it
C1_Witness ==
  \E i \in DOMAIN nodes :
    /\ Updated(i)
    /\ IntegratedY(i) > CanvasHeight
    /\ nodes[i].y = CanvasHeight

(* C2.  Reduced-motion override: with the reduced-motion signal set, the    *)
(* particle set stays empty, animate is never scheduled nor run and no      *)
(* canvas call is issued, whatever resize and visibility events occur.      *)
C2_ReducedMotionIdle ==
  prefersReducedMotion =>
    /\ nodes = <<>>
    /\ pending = {}
    /\ nextHandle = 1
    /\ frames = 0
    /\ calls = [clear |-> 0, stroke |-> 0, fill |-> 0]

(* C3.  At most one frame callback is pending in every reachable state.     *)
C3_AtMostOnePending == Cardinality(pending) <= 1

(* C4.  Teardown: once the cleanup has run, no animate callback is pending  *)
(* and neither listener is registered.                                      *)
C4_TeardownClean ==
  phase = "unmounted" => /\ pending = {}
                         /\ ~resizeListener
                         /\ ~visibilityListener

(* C5.  Cancellation on hidden is immediate: from a handled change to       *)
(* hidden until the next handled change to visible, animate does not run.   *)
C5_NoFrameWhileHidden == [][pause.state = "hidden" => frames' = frames]_vars

(* C6.  Pause/resume: after hidden then visible with no resize in between,  *)
(* until the first update step after the resume the particle array is the   *)
(* array as it was when the hidden change was handled.                      *)
C6_ResumeFromCancelledState ==
  (pause.state = "resumed" /\ ~pause.resized) => nodes = pause.nodes

(* C7.  Reflection correctness: per particle and per axis, a coordinate     *)
(* integrated above the bound (below 0) ends on the bound (on 0) with the   *)
(* velocity component negated; one integrated inside [0, bound] is kept,    *)
(* with the velocity component unchanged.                                   *)
Reflected(p, v, q, p2, v2, bound) ==
  /\ q > bound => (p2 = bound /\ v2 = -v)
  /\ q < 0 => (p2 = 0 /\ v2 = -v)
  /\ (0 <= q /\ q <= bound) => (p2 = q /\ v2 = v)

C7_ReflectionCorrect ==
  \A i \in DOMAIN nodes :
    Updated(i) =>
      /\ Reflected(frame.before[i].x, frame.before[i].vx, IntegratedX(i),
                   nodes[i].x, nodes[i].vx, CanvasWidth)
      /\ Reflected(frame.before[i].y, frame.before[i].vy, IntegratedY(i),
                   nodes[i].y, nodes[i].vy, CanvasHeight)

\* one update step sent a particle past the right edge, another below 0 on an
\* axis, and moved a third inside the canvas
C7_Witness ==
  /\ \E i \in DOMAIN nodes :
       /\ Updated(i)
       /\ IntegratedX(i) > CanvasWidth
       /\ nodes[i].x = CanvasWidth
       /\ frame.before[i].vx > 0
       /\ nodes[i].vx = -frame.before[i].vx
  /\ \E j \in DOMAIN nodes :
       /\ Updated(j)
       /\ (IntegratedX(j) < 0 \/ IntegratedY(j) < 0)
  /\ \E k \in DOMAIN nodes :
       /\ Updated(k)
       /\ 0 < IntegratedX(k) /\ IntegratedX(k) < CanvasWidth
       /\ nodes[k].x # frame.before[k].x
       /\ nodes[k].vx = frame.before[k].vx

(* C8.  Resize regeneration: a handled resize, motion not reduced, replaces *)
(* the particle array by new Node objects, none of the previous ones kept,  *)
(* and the new length is min(tier ceiling, floor(width * height / divisor)) *)
(* of the canvas as resized.                                                *)
C8_ResizeRegenerates ==
  [][ (/\ resizeListener
       /\ ~prefersReducedMotion
       /\ <<innerWidth', innerHeight'>> # <<innerWidth, innerHeight>>)
      => /\ Ids(nodes') \cap Ids(nodes) = {}
         /\ Len(nodes') = Min(TierCeiling(rev, isMobileMode),
                              (canvas'.width * canvas'.height) \div DensityDivisor(rev))
    ]_vars

\* a resize replaced a non-empty array, which an update step had run on, by another
C8_Witness ==
  /\ generation = 2
  /\ resizeListener
  /\ ~prefersReducedMotion
  /\ nodes # <<>>
  /\ frame.before # <<>>
  /\ \A i \in DOMAIN nodes : nodes[i].id[1] = generation
  /\ Ids(frame.before) \cap Ids(nodes) = {}

(* C9.  Tier-based count ceiling: after every mount or resize the number of *)
(* particles is at most the ceiling of the device tier: 32 ("time") or 26   *)
(* ("frame") on a constrained device, 180 or 160 on a standard one.         *)
C9_TierCeiling == Len(nodes) <= TierCeiling(rev, isMobileMode)

\* a constrained device holds exactly its ceiling although the area gives more
C9_Witness ==
  /\ phase = "mounted"
  /\ isMobileMode
  /\ Len(nodes) = TierCeiling(rev, TRUE)
  /\ (canvas.width * canvas.height) \div DensityDivisor(rev) > TierCeiling(rev, TRUE)

(* C10.  Connection gating: a frame on a constrained device, or with more   *)
(* than 120 particles, issues no connection stroke; strokes occur only on a *)
(* standard device with at most 120 particles.                              *)
C10_ConnectionGating ==
  /\ (frame.updated /\ (isMobileMode \/ Len(frame.before) > ConnectionCeiling))
       => frame.strokes = 0
  /\ isMobileMode => calls.stroke = 0

\* a standard device drew a frame of more than 120 particles, two of them within
\* the link distance, without a stroke
C10_Witness ==
  /\ frame.updated
  /\ ~isMobileMode
  /\ Len(frame.before) > ConnectionCeiling
  /\ frame.strokes = 0
  /\ Updated(1)
  /\ \E j \in 2..Len(nodes) :
       DistanceBelow(nodes[1], nodes[j], maxDistance(rev))

(* C11.  Surface-acquisition failure: when the canvas or its 2D context is   *)
(* null at mount, no listener is registered, no particle is created, no     *)
(* frame callback is requested, the canvas is not touched, and no later     *)
(* resize or visibility event starts the animation.                         *)
C11_NoSurfaceNoEngine ==
  (surface = "noCanvas" \/ surface = "noContext") =>
    /\ ~resizeListener
    /\ ~visibilityListener
    /\ nodes = <<>>
    /\ generation = 0
    /\ pending = {}
    /\ animationRef = 0
    /\ nextHandle = 1
    /\ frames = 0
    /\ calls = [clear |-> 0, stroke |-> 0, fill |-> 0]
    /\ canvas = [width |-> 300, height |-> 150, dpr |-> 2]

\* the effect has run without a context on the device reporting 2 GB, the page
\* is visible, and the viewport is no longer the 1920 px it was mounted with
C11_Witness ==
  /\ surface = "noContext"
  /\ phase = "mounted"
  /\ visibilityState = "visible"
  /\ deviceMemory = 2
  /\ innerWidth # 1920

(* C12.  Mail relay error mapping: every upstream provider failure (the      *)
(* provider answers with a non-OK status, or the provider request rejects)  *)
(* is returned with a status different from the malformed-request status    *)
(* 400, the configuration-error status 500 and the success status 200.      *)
C12_UpstreamFailureDistinct ==
  (upstream = "error" \/ upstream = "rejected") =>
    /\ response.statusCode # 400
    /\ response.statusCode # 500
    /\ response.statusCode # 200

(* C13.  Frame pacing on constrained devices ("frame" revision): the         *)
(* timestamps of two consecutively executed update-and-draw bodies differ   *)
(* by at least 33 ms; an invocation the throttle skips changes no particle, *)
(* issues no canvas call, leaves last unchanged and requests exactly one    *)
(* next callback.                                                           *)
C13_FramePacing ==
  [][ (rev = "frame" /\ isMobileMode' /\ frames' = frames + 1) =>
        /\ (frame'.cleared /\ frame.executed >= 0) => frame'.ts - frame.executed >= 33
        /\ ~frame'.cleared =>
             /\ nodes' = frame'.before
             /\ calls' = calls
             /\ last' = last
             /\ nextHandle' = nextHandle + 1
             /\ Cardinality(pending' \ pending) = 1
    ]_vars

\* a callback was skipped less than 33 ms after an executed body
C13_Witness ==
  /\ rev = "frame"
  /\ isMobileMode
  /\ nodes # <<>>
  /\ ~frame.cleared
  /\ frame.executed >= 0
  /\ frame.ts > frame.executed
  /\ frame.ts - frame.executed < 33

(* C14.  The frame loop is self-sustaining: every invocation of animate,     *)
(* executed or skipped, requests exactly one next callback as its last act;  *)
(* while the component is mounted, the page visible and motion not reduced,  *)
(* a callback is pending; and under a fair frame scheduler with advancing    *)
(* timestamps an update-and-draw pass executes again (as long as the run may *)
(* still request a frame).                                                   *)
Running ==
  /\ phase = "mounted"
  /\ surface = "ok"
  /\ visibilityState = "visible"
  /\ ~prefersReducedMotion

C14_SelfSustaining ==
  /\ [](Running => pending # {})
  /\ [][ frames' = frames + 1 =>
           /\ nextHandle' = nextHandle + 1
           /\ animationRef' = nextHandle
           /\ pending' \ pending = {[id |-> nextHandle, at |-> frame'.ts]}
       ]_vars
  /\ \A n \in 0..(MaxHandle - 1) :
       (Running /\ calls.clear = n /\ nextHandle <= MaxHandle)
         ~> (calls.clear > n \/ ~Running \/ nextHandle > MaxHandle)

\* the loop has run three times on a visible page, twice through the body, and
\* its next callback is pending
C14_Witness ==
  /\ Running
  /\ frames = 3
  /\ calls.clear >= 2
  /\ frame.cleared
  /\ \E c \in pending : c.id = animationRef /\ c.at = frame.ts

(* C15.  No fast-forward after a stall ("time" revision): the time step of   *)
(* every update step is above 0 and at most 0.033 s, whatever the gap       *)
(* between the timestamps of consecutive callbacks, so that on each axis a  *)
(* particle moves by at most 0.033 x |velocity component| in one frame.     *)
MaxStep == (33 * TicksPerSecond) \div 1000

C15_NoFastForward ==
  (rev = "time" /\ frame.updated) =>
    /\ 0 < frame.dt /\ frame.dt <= MaxStep
    /\ \A i \in DOMAIN nodes :
         Updated(i) =>
           /\ Abs(nodes[i].x - frame.before[i].x) * TicksPerSecond
                 <= MaxStep * Abs(frame.before[i].vx)
           /\ Abs(nodes[i].y - frame.before[i].y) * TicksPerSecond
                 <= MaxStep * Abs(frame.before[i].vy)

\* a callback ran 40 ms after the one before it: the step was 0.033 s and a
\* particle moved by 0.033 x its velocity
C15_Witness ==
  /\ rev = "time"
  /\ frame.updated
  /\ frame.since # 0
  /\ frame.ts - frame.since = 40
  /\ frame.dt = MaxStep
  /\ \E i \in DOMAIN nodes :
       /\ Updated(i)
       /\ frame.before[i].vx # 0
       /\ Abs(nodes[i].x - frame.before[i].x) * TicksPerSecond
             = MaxStep * Abs(frame.before[i].vx)

(* C16.  The device tier is determined again on every viewport resize:     *)
(* while the resize listener is registered, the tier in use is the tier of  *)
(* the current viewport, and the particle count is within that tier's       *)
(* ceiling.                                                                 *)
C16_TierFollowsResize ==
  (resizeListener /\ generation >= 1) =>
    /\ isMobileMode = MobileMode(innerWidth, deviceMemory)
    /\ Len(nodes) <= TierCeiling(rev, MobileMode(innerWidth, deviceMemory))

(* C17.  Device tier classification: the device is constrained if and only *)
(* if the viewport is at most 767 px wide or the reported device memory is  *)
(* at most 3; either signal alone suffices, and with no device memory       *)
(* reported the width alone decides.                                        *)
C17_TierClassification ==
  (resizeListener /\ generation = 1) =>
    /\ isMobileMode <=> (innerWidth <= 767 \/ (deviceMemory # 0 /\ deviceMemory <= 3))
    /\ deviceMemory = 0 => (isMobileMode <=> innerWidth <= 767)

\* mounted on a 768 px wide viewport with a reported memory of 3: constrained by
\* the memory signal alone
C17_Witness ==
  /\ phase = "mounted"
  /\ resizeListener
  /\ generation = 1
  /\ innerWidth = 768
  /\ deviceMemory = 3
  /\ isMobileMode

(* C18.  Constrained devices get a sparser field through both parameters   *)
(* of the count formula: their ceiling is lower than the standard one, and  *)
(* their count, when below the ceiling, is floor(area / d) for a divisor d  *)
(* larger than the divisor used for a standard device.                      *)
\* n = floor(area / d) for some d above divisor
FloorWithLargerDivisor(area, n, divisor) ==
  \/ n = 0
  \/ /\ area \div n > divisor
     /\ area \div (area \div n) = n

C18_SparserWhenConstrained ==
  (isMobileMode /\ ~prefersReducedMotion /\ generation >= 1) =>
    /\ TierCeiling(rev, TRUE) < TierCeiling(rev, FALSE)
    /\ Len(nodes) <= TierCeiling(rev, TRUE)
    /\ Len(nodes) < TierCeiling(rev, TRUE) =>
         FloorWithLargerDivisor(canvas.width * canvas.height, Len(nodes),
                                DensityDivisor(rev))

(* C19.  No energy loss: an update step leaves |vx| and |vy| of every       *)
(* particle as they were; it can only change the sign of a component, and   *)
(* it flips each axis on its own: vx exactly when x was integrated out of   *)
(* [0, width], vy exactly when y was integrated out of [0, height].         *)
OutX(i) == IntegratedX(i) < 0 \/ IntegratedX(i) > CanvasWidth
OutY(i) == IntegratedY(i) < 0 \/ IntegratedY(i) > CanvasHeight

\* what the latest update step did to the velocities
FlipsPerAxis ==
  \A i \in DOMAIN nodes :
    Updated(i) =>
      /\ Abs(nodes[i].vx) = Abs(frame.before[i].vx)
      /\ Abs(nodes[i].vy) = Abs(frame.before[i].vy)
      /\ nodes[i].vx = IF OutX(i) THEN -frame.before[i].vx ELSE frame.before[i].vx
      /\ nodes[i].vy = IF OutY(i) THEN -frame.before[i].vy ELSE frame.before[i].vy

\* no step between two regenerations changes the speed of a particle on an axis
SpeedsKept ==
  generation' = generation =>
    /\ DOMAIN nodes' = DOMAIN nodes
    /\ \A i \in DOMAIN nodes :
         /\ Abs(nodes'[i].vx) = Abs(nodes[i].vx)
         /\ Abs(nodes'[i].vy) = Abs(nodes[i].vy)

C19_NoEnergyLoss == []FlipsPerAxis /\ [][SpeedsKept]_vars

\* one update step took a particle moving on both axes across a corner, and another
\* across a single edge
C19_Witness ==
  /\ \E i \in DOMAIN nodes :
       /\ Updated(i)
       /\ frame.before[i].vx # 0 /\ frame.before[i].vy # 0
       /\ OutX(i) /\ OutY(i)
       /\ nodes[i].vx = -frame.before[i].vx
       /\ nodes[i].vy = -frame.before[i].vy
  /\ \E j \in DOMAIN nodes :
       /\ Updated(j)
       /\ frame.before[j].vx # 0 /\ frame.before[j].vy # 0
       /\ OutX(j) /\ ~OutY(j)
       /\ nodes[j].vx = -frame.before[j].vx
       /\ nodes[j].vy = frame.before[j].vy

(* C20.  Connection rendering, when not gated off: in one frame each       *)
(* unordered pair of distinct particles is examined once, a line is stroked *)
(* for it if and only if its distance is strictly below the maximum link    *)
(* distance, and opacity and thickness grow with proximity: of two stroked  *)
(* links, the one shorter by a pixel or more is more opaque and thicker.    *)
\* the array is the one the latest frame drew, with connections not gated off
ConnectionsDrawn ==
  /\ frame.updated
  /\ ~isMobileMode
  /\ Len(nodes) <= ConnectionCeiling
  /\ Len(nodes) = Len(frame.before)
  /\ \A i \in DOMAIN nodes : nodes[i].id = frame.before[i].id

\* the unordered pairs of distinct particles closer than the maximum link distance
Links ==
  { p \in (DOMAIN nodes) \X (DOMAIN nodes) :
      p[1] < p[2] /\ DistanceBelow(nodes[p[1]], nodes[p[2]], maxDistance(rev)) }

C20_ConnectionRendering ==
  ConnectionsDrawn =>
    /\ frame.strokes = Cardinality(Links)
    /\ \E length \in { [p \in Links |->
                           Distance(nodes[p[1]], nodes[p[2]], maxDistance(rev))] @@ <<>> } :
         \A p, q \in Links :
           /\ LinkOpacity(rev, length[p]) > 0
           /\ length[p] + Unit <= length[q] =>
                /\ LinkOpacity(rev, length[p]) > LinkOpacity(rev, length[q])
                /\ LinkWidth(rev, length[p]) > LinkWidth(rev, length[q])

(* C21.  Drawing uses logical pixel coordinates: under the scale transform  *)
(* dpr set by resizeCanvas, every particle position that createNodes        *)
(* produced and updateNodes kept lies inside the viewport, 0 <= x <=        *)
(* innerWidth and 0 <= y <= innerHeight, for dpr > 1 as well.               *)
C21_LogicalCoordinates ==
  resizeListener =>
    \A i \in DOMAIN nodes :
      /\ 0 <= nodes[i].x /\ nodes[i].x <= innerWidth * Unit
      /\ 0 <= nodes[i].y /\ nodes[i].y <= innerHeight * Unit

(* C22.  The mail relay is a single-request pass-through: for one request  *)
(* the handler calls the provider at most once, and only when the method is *)
(* POST, CONTACT_TO_EMAIL and RESEND_API_KEY are set and the body parses as *)
(* JSON; OPTIONS returns 204, another non-POST method 405, a missing        *)
(* setting 500 (whatever the body) and an unparseable body 400, each with   *)
(* no provider call.                                                        *)
C22_SinglePassThrough ==
  response # NoResponse =>
    /\ fetches <= 1
    /\ fetches >= 1 => /\ event.httpMethod = "POST"
                       /\ env.to /\ env.key
                       /\ event.body.kind # "text"
    /\ event.httpMethod = "OPTIONS" => (response.statusCode = 204 /\ fetches = 0)
    /\ event.httpMethod \notin {"OPTIONS", "POST"} =>
         (response.statusCode = 405 /\ fetches = 0)
    /\ (event.httpMethod = "POST" /\ ~(env.to /\ env.key)) =>
         (response.statusCode = 500 /\ fetches = 0)
    /\ (event.httpMethod = "POST" /\ env.to /\ env.key /\ event.body.kind = "text") =>
         (response.statusCode = 400 /\ fetches = 0)

\* a POST with both settings and a JSON body was relayed with one provider call
\* that failed
C22_Witness ==
  /\ event.httpMethod = "POST"
  /\ env.to /\ env.key
  /\ event.body.kind = "object"
  /\ upstream = "error"
  /\ fetches = 1
  /\ response.statusCode = 502

(* C23.  After a reflection the particle heads back into the canvas: an    *)
(* update step that leaves a particle clamped at x = canvas.width after an  *)
(* overshoot leaves vx <= 0, one that leaves it clamped at x = 0 after an   *)
(* undershoot leaves vx >= 0 (same for y and canvas.height); hence no axis  *)
(* of a particle is flipped in two consecutive frames unless the particle   *)
(* went from one edge to the opposite one.                                  *)
HeadsBack ==
  \A i \in DOMAIN nodes :
    Updated(i) =>
      /\ IntegratedX(i) > CanvasWidth => (nodes[i].x = CanvasWidth /\ nodes[i].vx <= 0)
      /\ IntegratedX(i) < 0 => (nodes[i].x = 0 /\ nodes[i].vx >= 0)
      /\ IntegratedY(i) > CanvasHeight => (nodes[i].y = CanvasHeight /\ nodes[i].vy <= 0)
      /\ IntegratedY(i) < 0 => (nodes[i].y = 0 /\ nodes[i].vy >= 0)

\* coordinate p2 is on the edge opposite to the one p is on
OppositeEdges(p, p2, bound) == (p = 0 /\ p2 = bound) \/ (p = bound /\ p2 = 0)

NoDoubleFlip ==
  (frames' = frames + 1 /\ frame'.updated) =>
    \A i \in DOMAIN nodes :
      (Updated(i) /\ i \in DOMAIN nodes' /\ nodes'[i].id = nodes[i].id) =>
        /\ (OutX(i) /\ nodes[i].vx # 0 /\ nodes'[i].vx = -nodes[i].vx) =>
              OppositeEdges(nodes[i].x, nodes'[i].x, CanvasWidth)
        /\ (OutY(i) /\ nodes[i].vy # 0 /\ nodes'[i].vy = -nodes[i].vy) =>
              OppositeEdges(nodes[i].y, nodes'[i].y, CanvasHeight)

C23_HeadsBackAfterReflection == []HeadsBack /\ [][NoDoubleFlip]_vars

\* one update step left a particle on the right edge moving left and another on
\* the upper edge moving down
C23_Witness ==
  /\ \E i \in DOMAIN nodes :
       /\ Updated(i)
       /\ IntegratedX(i) > CanvasWidth
       /\ nodes[i].x = CanvasWidth
       /\ nodes[i].vx < 0
  /\ \E j \in DOMAIN nodes :
       /\ Updated(j)
       /\ IntegratedY(j) < 0
       /\ nodes[j].y = 0
       /\ nodes[j].vy > 0

(* C24.  A resize event never changes the scheduling state of the loop:     *)
(* handleResize neither schedules nor cancels a frame callback nor runs     *)
(* animate, so a resize while the page is hidden leaves the loop paused and *)
(* a resize while it runs leaves exactly the same pending callback.         *)
C24_ResizeKeepsSchedule ==
  [][ (resizeListener /\ <<innerWidth', innerHeight'>> # <<innerWidth, innerHeight>>) =>
        /\ pending' = pending
        /\ animationRef' = animationRef
        /\ nextHandle' = nextHandle
        /\ frames' = frames
        /\ last' = last ]_vars

\* a resize was handled while the page was hidden after a frame had run: no
\* callback is pending
C24_Witness ==
  /\ pause.state = "hidden"
  /\ pause.resized
  /\ visibilityState = "hidden"
  /\ generation = 2
  /\ frames >= 2
  /\ pending = {}

(* C25.  Hologram gallery teardown: after the cleanup of the effect has run, *)
(* before the first frame or after any number of frames, no raf callback is *)
(* pending, so that the orbit animation never runs again.                   *)
C25_GalleryTeardown == gallery.phase = "unmounted" => gallery.pending = {}

(* C26.  Hologram gallery focus is exclusive: after any sequence of clicks  *)
(* on the center card and the orbit cards, at most one card of the          *)
(* component carries the is-focus class.                                    *)
FocusedCards ==
  { k \in DOMAIN gallery.cards : gallery.cards[k].attached /\ gallery.cards[k].focus }

C26_FocusExclusive == Cardinality(FocusedCards) <= 1

(* C27.  Hologram gallery focus is a round trip on depth: the translateZ of *)
(* a card is its layout value plus 120 while it carries is-focus and its    *)
(* layout value otherwise, whatever clicks came before.                     *)
LayoutZ(k) == IF gallery.cards[k].center THEN 0 ELSE Radius(gallery.w)

C27_FocusDepthRoundTrip ==
  \A k \in DOMAIN gallery.cards :
    gallery.cards[k].attached =>
      gallery.cards[k].z = LayoutZ(k) + (IF gallery.cards[k].focus THEN 120 ELSE 0)

(* C28.  Chat widget send: a send with empty or whitespace-only input       *)
(* changes nothing and makes no request; any other send appends exactly the *)
(* user's message and makes one request, whose body carries at most the 10  *)
(* most recent messages and ends with the message just sent; when the       *)
(* request settles exactly one assistant entry is appended (the reply, 'No  *)
(* response' or the error text); loading is true while the request is in    *)
(* flight and false otherwise.                                              *)
Blank(str) == \A k \in DOMAIN str : str[k] = " "

SendStep ==
  talk'.sends = talk.sends + 1 =>
    IF Blank(talk.input)
    THEN /\ talk'.messages = talk.messages
         /\ talk'.input = talk.input
         /\ talk'.loading = talk.loading
         /\ talk'.requests = talk.requests
    ELSE /\ Len(talk'.messages) = Len(talk.messages) + 1
         /\ SubSeq(talk'.messages, 1, Len(talk.messages)) = talk.messages
         /\ talk'.messages[Len(talk'.messages)] = [role |-> "user", content |-> talk.input]
         /\ talk'.requests = talk.requests + 1
         /\ talk'.loading
         /\ Len(talk'.request) = Min(10, Len(talk'.messages))
         /\ \A k \in 1..Len(talk'.request) :
              talk'.request[k] =
                talk'.messages[Len(talk'.messages) - Len(talk'.request) + k]

SettleStep ==
  (talk.inFlight /\ ~talk'.inFlight) =>
    /\ Len(talk'.messages) = Len(talk.messages) + 1
    /\ SubSeq(talk'.messages, 1, Len(talk.messages)) = talk.messages
    /\ talk'.messages[Len(talk'.messages)].role = "assistant"
    /\ talk'.messages[Len(talk'.messages)].content \in {ReplyText, NoResponseText, ErrorText}
    /\ talk'.requests = talk.requests
    /\ ~talk'.loading

C28_ChatSend ==
  /\ [](talk.loading <=> talk.inFlight)
  /\ [][SendStep /\ SettleStep]_vars

\* the sixth message sent is in flight: its request carries the last 10 of the 11
\* messages
C28_Witness ==
  /\ talk.loading
  /\ talk.requests = 6
  /\ Len(talk.messages) = 11
  /\ Len(talk.request) = 10
  /\ talk.request[10] = talk.messages[11]
  /\ talk.request[1] = talk.messages[2]

(* C29.  Admin gate: on the Works and Certification pages the upload form  *)
(* is shown only after a submission of the gate whose code is exactly the   *)
(* admin code; a submission with any other code leaves isAdmin false and    *)
(* unlocks nothing, and once isAdmin is true nothing done on the page sets  *)
(* it back to false.                                                        *)
GateStep ==
  /\ (gate'.isAdmin /\ ~gate.isAdmin) =>
        /\ gate'.submits # gate.submits
        /\ gate.code = <<"6", "5", "3", "2">>
        /\ gate'.submitted = "unlock"
  /\ (gate'.submits # gate.submits /\ gate'.page = gate.page
         /\ gate.code # <<"6", "5", "3", "2">>) =>
        /\ ~gate'.isAdmin
        /\ gate'.submitted = "alert"
  /\ (gate.isAdmin /\ gate'.page = gate.page) => gate'.isAdmin

C29_AdminGate ==
  /\ [](UploadFormShown(gate) => (gate.isAdmin /\ gate.submitted = "unlock"))
  /\ [][GateStep]_vars

\* the gate was submitted with the admin code followed by a space, then with the
\* admin code: the upload form is shown and a file was loaded into the preview
C29_Witness ==
  /\ gate.page = "Certification"
  /\ UploadFormShown(gate)
  /\ gate.submits = 0
  /\ gate.imagePreview = "a.png"

(* C30.  escapeHtml neutralises every HTML-significant character in one    *)
(* pass: the output contains none of < > " and ', every & of the output     *)
(* starts one of the five entities, an input with none of the five special  *)
(* characters is returned unchanged, and the output is the input with each  *)
(* special character replaced once by its entity, the ampersands of the     *)
(* entities not being escaped again.                                        *)
Entity(ch) ==
  IF ch = "&" THEN <<"&", "a", "m", "p", ";">>
  ELSE IF ch = "<" THEN <<"&", "l", "t", ";">>
  ELSE IF ch = ">" THEN <<"&", "g", "t", ";">>
  ELSE IF ch = "\"" THEN <<"&", "q", "u", "o", "t", ";">>
  ELSE IF ch = "'" THEN <<"&", "#", "0", "3", "9", ";">>
  ELSE <<ch>>

RECURSIVE OnePass(_)
OnePass(str) == IF str = <<>> THEN <<>> ELSE Entity(Head(str)) \o OnePass(Tail(str))

StartsEntity(str, k) ==
  \E ch \in {"&", "<", ">", "\"", "'"} :
    /\ k + Len(Entity(ch)) - 1 <= Len(str)
    /\ SubSeq(str, k, k + Len(Entity(ch)) - 1) = Entity(ch)

C30_EscapeHtml ==
  escaped.called =>
    /\ \A k \in DOMAIN escaped.output : escaped.output[k] \notin {"<", ">", "\"", "'"}
    /\ \A k \in DOMAIN escaped.output :
         escaped.output[k] = "&" => StartsEntity(escaped.output, k)
    /\ (\A k \in DOMAIN escaped.input : escaped.input[k] \notin {"&", "<", ">", "\"", "'"})
         => escaped.output = escaped.input
    /\ escaped.output = OnePass(escaped.input)

\* escapeHtml was called with <&a and returned &lt;&amp;a
C30_Witness ==
  /\ escaped.called
  /\ escaped.input = <<"<", "&", "a">>
  /\ escaped.output = <<"&", "l", "t", ";", "&", "a", "m", "p", ";", "a">>

====
